---- MODULE Spec2Model ----
(***************************************************************************)
(* Model of scripts/build_ship_art.py: the manifest validator, the path    *)
(* resolver and the bundle assembler of the ship art pipeline.             *)
(*                                                                         *)
(* Text is modelled symbol by symbol: a string is a sequence of symbols    *)
(* (a symbol is one character, or an indivisible word such as "modules"    *)
(* or "lod_" that the code only ever copies whole), a path is the list of  *)
(* the segments the string splits into at "/".  A JSON value is a tagged   *)
(* record.  The asset tree holds regular files, directories and one        *)
(* symbolic link; every declared path of the manifests explored names a    *)
(* regular file or nothing, and file operations themselves succeed.        *)
(***************************************************************************)
EXTENDS Integers, Sequences, FiniteSets, TLC

\* ------------------------------------------------------------- bounds
MaxModules == 2
MaxRuns == 2

\* ------------------------------------------------------------- JSON values
JAbsent == [t |-> "absent", s |-> <<>>, n |-> 0, l |-> <<>>]
JNull == [t |-> "null", s |-> <<>>, n |-> 0, l |-> <<>>]
JBool(b) == [t |-> "bool", s |-> <<>>, n |-> IF b THEN 1 ELSE 0, l |-> <<>>]
JNum(n) == [t |-> "num", s |-> <<>>, n |-> n, l |-> <<>>]
JStr(s) == [t |-> "str", s |-> s, n |-> 0, l |-> <<>>]
JList(l) == [t |-> "list", s |-> <<>>, n |-> 0, l |-> l]

\* Python truth value of a JSON value (None, False, 0, "" and [] are false).
Truthy(v) ==
  CASE v.t = "bool" -> v.n # 0
    [] v.t = "num" -> v.n # 0
    [] v.t = "str" -> v.s # <<>>
    [] v.t = "list" -> v.l # <<>>
    [] OTHER -> FALSE

\* isinstance(v, int): JSON integers, and booleans (bool is a subclass of int).
IsInt(v) == v.t \in {"num", "bool"}

\* isinstance(v, str) and v (a non-empty string)
IsNonEmptyStr(v) == v.t = "str" /\ v.s # <<>>

MODULE_TYPES == {<<"hull">>, <<"wing">>, <<"exhaust">>, <<"interior">>}

OPTIONAL_KEYS ==
  {"description", "sockets", "interiorAnchor", "metrics", "compatibleSockets",
   "mirrorOf", "tags", "dependencies", "vfxHooks"}

\* ------------------------------------------------------------- paths
\* A path: whether it is absolute, and its segments (each a string).
MkPath(a, segs) == [abs |-> a, segs |-> segs]

RECURSIVE SplitSlash(_, _, _, _)
\* The segments of string s from position i on; cur is the segment being read.
\* Empty segments and "." segments are dropped, as pathlib does.
SplitSlash(s, i, cur, acc) ==
  LET push == IF cur = <<>> \/ cur = <<".">> THEN acc ELSE Append(acc, cur)
  IN IF i > Len(s) THEN push
     ELSE IF s[i] = "/" THEN SplitSlash(s, i + 1, <<>>, push)
     ELSE SplitSlash(s, i + 1, Append(cur, s[i]), acc)

\* Path(s)
ParsePath(s) == MkPath(s # <<>> /\ s[1] = "/", SplitSlash(s, 1, <<>>, <<>>))

\* a / b: an absolute right operand replaces the left one
JoinPath(a, b) == IF b.abs THEN b ELSE MkPath(a.abs, a.segs \o b.segs)

RECURSIVE JoinSegs(_, _)
JoinSegs(segs, i) ==
  IF i > Len(segs) THEN <<>>
  ELSE (IF i > 1 THEN <<"/">> ELSE <<>>) \o segs[i] \o JoinSegs(segs, i + 1)

\* p.as_posix()
AsPosix(p) == (IF p.abs THEN <<"/">> ELSE <<>>) \o JoinSegs(p.segs, 1)

\* ------------------------------------------------------------- asset tree
P1(a) == << <<a>> >>
P2(a, b) == << <<a>>, <<b>> >>
P3(a, b, c) == << <<a>>, <<b>>, <<c>> >>

\* The regular files on disk (absolute, resolved locations).  /r is the asset
\* root; /s lies outside it.
Files ==
  {P2("r", "m"), P2("r", "c"), P2("r", "t"), P2("r", "u"),
   P3("r", "d", "m"), P3("r", "d", "t"), P1("s")}

\* Symbolic links: /r/l points at /s.
Symlinks == {[from |-> P2("r", "l"), to |-> P1("s")]}

Prefixes(p) == {SubSeq(p, 1, k) : k \in 0..Len(p)}

Directories == UNION {Prefixes(f) \ {f} : f \in Files}

\* Path.exists() of a resolved location
Exists(p) == p \in Files \cup Directories

FollowLink(p) ==
  IF \E k \in Symlinks : k.from = p
  THEN (CHOOSE k \in Symlinks : k.from = p).to
  ELSE p

RECURSIVE Walk(_, _)
Walk(cur, segs) ==
  IF segs = <<>> THEN cur
  ELSE LET g == Head(segs)
           nxt == IF g = <<".", ".">>
                  THEN (IF cur = <<>> THEN <<>> ELSE SubSeq(cur, 1, Len(cur) - 1))
                  ELSE FollowLink(Append(cur, g))
       IN Walk(nxt, Tail(segs))

\* Path.resolve() of an absolute path: ".." and symbolic links are resolved.
Resolve(p) == Walk(<<>>, p.segs)

IsPrefix(a, b) == Len(a) <= Len(b) /\ SubSeq(b, 1, Len(a)) = a

\* resolved.relative_to(base) succeeds
IsRelativeTo(resolved, base) == IsPrefix(base, resolved)

\* Path.name
Name(resolved) == IF resolved = <<>> THEN <<>> ELSE resolved[Len(resolved)]

AssetsDir == MkPath(TRUE, P1("r"))
OutputDir == MkPath(TRUE, P1("o"))

\* ------------------------------------------------------------- failures
\* A ValidationError message: which check failed, for which module and field,
\* and the value the message prints.
Msg(kind, module_id, field, detail) ==
  [kind |-> kind, module |-> module_id, field |-> field, detail |-> detail]

NoMsg == Msg("none", <<>>, "", <<>>)

\* ------------------------------------------------------------- PathResolver
\* ensure_relative_path: the declared value must be a non-empty string, the
\* resolved location must exist, and (checked last) lie under the asset root.
ensure_relative_path(base_dir, relative_str, field, module_id) ==
  IF ~IsNonEmptyStr(relative_str)
  THEN [ok |-> FALSE, path |-> <<>>,
        err |-> Msg("invalid_path", module_id, field, <<>>)]
  ELSE LET relative_path == ParsePath(relative_str.s)
           resolved == Resolve(JoinPath(base_dir, relative_path))
       IN IF ~Exists(resolved)
          THEN [ok |-> FALSE, path |-> resolved,
                err |-> Msg("missing_file", module_id, field, AsPosix(relative_path))]
          ELSE IF ~IsRelativeTo(resolved, Resolve(base_dir))
          THEN [ok |-> FALSE, path |-> resolved,
                err |-> Msg("escape", module_id, field, AsPosix(relative_path))]
          ELSE [ok |-> TRUE, path |-> resolved, err |-> NoMsg]

\* The record of one call of ensure_relative_path: lod is the index of the LOD
\* entry the call was made for (0 outside the LOD loop).
Probe(lod, field, raw, r) ==
  [lod |-> lod, field |-> field, raw |-> raw,
   outcome |-> IF r.ok THEN "ok" ELSE r.err.kind, resolved |-> r.path]

\* ------------------------------------------------------------- ManifestValidator
LodEntry(level, mesh, has_collision, collision) ==
  [level |-> level, mesh |-> mesh, has_collision |-> has_collision,
   collision |-> collision]

LodsResult(kind, err, lods, probes) ==
  [kind |-> kind, err |-> err, lods |-> lods, probes |-> probes]

RECURSIVE ParseLods(_, _, _, _, _, _, _)

\* Lines 131-137: the paths of LOD entry idx, whose level has been accepted.
\* mesh and coll are the outcomes of ensure_relative_path for the entry's mesh
\* and collision; the collision is only resolved when its value is true.
LodPaths(assets_dir, module_id, lod_raw, idx, seen_levels, lods, probes, mesh, coll) ==
  IF ~mesh.ok
  THEN LodsResult("ValidationError", mesh.err, lods,
                  Append(probes, Probe(idx, "mesh", lod_raw[idx].mesh, mesh)))
  ELSE IF ~Truthy(lod_raw[idx].collision)
  THEN ParseLods(assets_dir, module_id, lod_raw, idx + 1,
                 seen_levels \cup {lod_raw[idx].level.n},
                 Append(lods, LodEntry(lod_raw[idx].level, mesh.path, FALSE, <<>>)),
                 Append(probes, Probe(idx, "mesh", lod_raw[idx].mesh, mesh)))
  ELSE IF ~coll.ok
  THEN LodsResult("ValidationError", coll.err, lods,
                  probes \o <<Probe(idx, "mesh", lod_raw[idx].mesh, mesh),
                              Probe(idx, "collision", lod_raw[idx].collision, coll)>>)
  ELSE ParseLods(assets_dir, module_id, lod_raw, idx + 1,
                 seen_levels \cup {lod_raw[idx].level.n},
                 Append(lods, LodEntry(lod_raw[idx].level, mesh.path, TRUE, coll.path)),
                 probes \o <<Probe(idx, "mesh", lod_raw[idx].mesh, mesh),
                             Probe(idx, "collision", lod_raw[idx].collision, coll)>>)

\* A faulty variant of ParseLods: the test `level in seen_levels` is left out.
ParseLodsNoReuseCheck(assets_dir, module_id, lod_raw, idx, seen_levels, lods, probes) ==
  IF idx > Len(lod_raw) THEN LodsResult("ok", NoMsg, lods, probes)
  ELSE IF ~lod_raw[idx].isobj
  THEN LodsResult("ValidationError", Msg("lod_not_object", module_id, "lods", <<>>),
                  lods, probes)
  ELSE IF ~IsInt(lod_raw[idx].level) \/ lod_raw[idx].level.n < 0
  THEN LodsResult("ValidationError", Msg("bad_level", module_id, "level", <<>>),
                  lods, probes)
  ELSE LodPaths(assets_dir, module_id, lod_raw, idx, seen_levels, lods, probes,
                ensure_relative_path(assets_dir, lod_raw[idx].mesh, "mesh", module_id),
                ensure_relative_path(assets_dir, lod_raw[idx].collision, "collision",
                                     module_id))

\* Lines 119-137, the LOD loop of parse_module, from entry idx on.  seen_levels
\* holds the levels of the entries before idx (True and 1 are the same level,
\* as in Python), lods the entries built so far.
ParseLods(assets_dir, module_id, lod_raw, idx, seen_levels, lods, probes) ==
  IF idx > Len(lod_raw) THEN LodsResult("ok", NoMsg, lods, probes)
  ELSE IF ~lod_raw[idx].isobj
  THEN LodsResult("ValidationError", Msg("lod_not_object", module_id, "lods", <<>>),
                  lods, probes)
  ELSE IF ~IsInt(lod_raw[idx].level) \/ lod_raw[idx].level.n < 0
  THEN LodsResult("ValidationError", Msg("bad_level", module_id, "level", <<>>),
                  lods, probes)
  ELSE IF lod_raw[idx].level.n \in seen_levels
  THEN LodsResult("ValidationError", Msg("reuse_level", module_id, "level", <<>>),
                  lods, probes)
  ELSE LodPaths(assets_dir, module_id, lod_raw, idx, seen_levels, lods, probes,
                ensure_relative_path(assets_dir, lod_raw[idx].mesh, "mesh", module_id),
                ensure_relative_path(assets_dir, lod_raw[idx].collision, "collision",
                                     module_id))

\* What `for x in value` iterates over: the items of a list, the characters of
\* a string; None, numbers and booleans are not iterable (TypeError).
Iterable(v) == v.t \in {"list", "str"}

Items(v) ==
  IF v.t = "list" THEN v.l
  ELSE IF v.t = "str" THEN [i \in 1..Len(v.s) |-> JStr(<<v.s[i]>>)]
  ELSE <<>>

PathsResult(kind, err, paths, probes) ==
  [kind |-> kind, err |-> err, paths |-> paths, probes |-> probes]

RECURSIVE ResolveAll(_, _, _, _, _, _, _)

\* One turn of the loop below; r is the outcome for items[i].
ResolveItem(assets_dir, items, field, module_id, i, paths, probes, r) ==
  IF ~r.ok
  THEN PathsResult("ValidationError", r.err, paths,
                   Append(probes, Probe(0, field, items[i], r)))
  ELSE ResolveAll(assets_dir, items, field, module_id, i + 1,
                  Append(paths, r.path), Append(probes, Probe(0, field, items[i], r)))

\* for item in items: out.append(ensure_relative_path(assets_dir, item, field, id))
ResolveAll(assets_dir, items, field, module_id, i, paths, probes) ==
  IF i > Len(items) THEN PathsResult("ok", NoMsg, paths, probes)
  ELSE ResolveItem(assets_dir, items, field, module_id, i, paths, probes,
                   ensure_relative_path(assets_dir, items[i], field, module_id))

\* defn.get(key, []) of a list-valued field
GetOrEmptyList(v) == IF v.t = "absent" THEN JList(<<>>) ELSE v

ModuleAsset(module_id, module_type, display_name, source, lods, materials, thumbnails, extra_files) ==
  [module_id |-> module_id, module_type |-> module_type,
   display_name |-> display_name, source |-> source, lods |-> lods,
   materials |-> materials, thumbnails |-> thumbnails,
   extra_files |-> extra_files]

\* The outcome of parse_module: "ok" with the module, "ValidationError" with
\* its message, or "TypeError" (an exception that is no ValidationError).
\* probes lists the calls of ensure_relative_path made, in order.
ParseResult(kind, err, module, probes) ==
  [kind |-> kind, err |-> err, module |-> module, probes |-> probes]

NoModule(defn) == ModuleAsset(<<>>, <<>>, JNull, defn, <<>>, <<>>, <<>>, <<>>)

Rejected(defn, err, probes) ==
  ParseResult("ValidationError", err, NoModule(defn), probes)

Raised(defn, probes) == ParseResult("TypeError", NoMsg, NoModule(defn), probes)

\* Lines 143-149: a thumbnails list wins; otherwise a legacy thumbnail string
\* is a one-element list; otherwise there are none.
ThumbItems(defn) ==
  IF defn.thumbnails.t = "list" THEN defn.thumbnails.l
  ELSE IF defn.thumbnail.t = "str" THEN <<defn.thumbnail>>
  ELSE <<>>

\* Lines 119-164 of parse_module, given the outcome L of the LOD loop and the
\* outcomes M, T, E of the loops over materials, thumbnails and extraFiles
\* (each loop is only run when the ones before it succeeded).
ModuleFromParts(defn, module_id, L, M, T, E) ==
  IF L.kind # "ok" THEN Rejected(defn, L.err, L.probes)
  ELSE IF ~Iterable(GetOrEmptyList(defn.materials)) THEN Raised(defn, L.probes)
  ELSE IF M.kind # "ok" THEN Rejected(defn, M.err, L.probes \o M.probes)
  ELSE IF T.kind # "ok"
  THEN Rejected(defn, T.err, L.probes \o M.probes \o T.probes)
  ELSE IF ~Iterable(GetOrEmptyList(defn.extraFiles))
  THEN Raised(defn, L.probes \o M.probes \o T.probes)
  ELSE IF E.kind # "ok"
  THEN Rejected(defn, E.err, L.probes \o M.probes \o T.probes \o E.probes)
  ELSE ParseResult("ok", NoMsg,
         ModuleAsset(module_id, defn.type.s,
                     IF defn.displayName.t = "absent" THEN JStr(module_id)
                     ELSE defn.displayName,
                     defn, L.lods, M.paths, T.paths, E.paths),
         L.probes \o M.probes \o T.probes \o E.probes)

\* parse_module
parse_module(defn, assets_dir) ==
  IF ~defn.isobj
  THEN Rejected(defn, Msg("not_object", <<>>, "", <<>>), <<>>)
  ELSE IF ~IsNonEmptyStr(defn.id)
  THEN Rejected(defn, Msg("missing_id", <<>>, "id", <<>>), <<>>)
  \* `module_type not in MODULE_TYPES` hashes the value: a list is unhashable
  ELSE IF defn.type.t = "list" THEN Raised(defn, <<>>)
  ELSE IF ~(defn.type.t = "str" /\ defn.type.s \in MODULE_TYPES)
  THEN Rejected(defn, Msg("bad_type", defn.id.s, "type", <<>>), <<>>)
  ELSE IF ~(defn.lods.t = "list" /\ defn.lods.l # <<>>)
  THEN Rejected(defn, Msg("no_lods", defn.id.s, "lods", <<>>), <<>>)
  ELSE ModuleFromParts(defn, defn.id.s,
         ParseLods(assets_dir, defn.id.s, defn.lods.l, 1, {}, <<>>, <<>>),
         ResolveAll(assets_dir, Items(GetOrEmptyList(defn.materials)), "materials",
                    defn.id.s, 1, <<>>, <<>>),
         ResolveAll(assets_dir, ThumbItems(defn), "thumbnail", defn.id.s, 1,
                    <<>>, <<>>),
         ResolveAll(assets_dir, Items(GetOrEmptyList(defn.extraFiles)), "extraFiles",
                    defn.id.s, 1, <<>>, <<>>))

\* ------------------------------------------------------------- manifests
\* One LOD definition of a manifest (a JSON object), or a non-object entry.
Lod(level, mesh, collision) ==
  [isobj |-> TRUE, level |-> level, mesh |-> mesh, collision |-> collision]

NotAnObjectLod == [isobj |-> FALSE, level |-> JAbsent, mesh |-> JAbsent,
                   collision |-> JAbsent]

\* One module definition.  meta holds the other keys of the object.
Def(id, type, lods, materials, thumbnails, thumbnail, extraFiles, meta) ==
  [isobj |-> TRUE, id |-> id, type |-> type, displayName |-> JAbsent,
   lods |-> lods, materials |-> materials, thumbnails |-> thumbnails,
   thumbnail |-> thumbnail, extraFiles |-> extraFiles, meta |-> meta]

Str1(a) == JStr(<<a>>)
NoMeta == [k \in {} |-> JNull]
Hull == JStr(<<"hull">>)
Wing == JStr(<<"wing">>)

\* A hull module "h" with the given LODs and materials and nothing else.
HullH(lods, materials) ==
  Def(Str1("h"), Hull, JList(lods), materials, JAbsent, JAbsent, JAbsent, NoMeta)

\* A hull module "h" with one LOD (level 0) of the given mesh.
MeshOnly(mesh) == HullH(<<Lod(JNum(0), mesh, JAbsent)>>, JAbsent)

Lod0 == Lod(JNum(0), Str1("m"), JAbsent)

ValidDefs ==
  { \* level 0 with mesh and collision, one material
    HullH(<<Lod(JNum(0), Str1("m"), Str1("c"))>>, JList(<<Str1("t")>>)),
    \* another module using level 0; a legacy thumbnail; pass-through keys
    Def(Str1("w"), Wing, JList(<<Lod0>>), JAbsent, JNull, Str1("u"), JAbsent,
        [k \in {"tags", "editorOnly"} |-> JStr(<<k>>)]),
    \* same type and id as the first, another file with the same basename as
    \* its mesh; two materials with the same basename
    HullH(<<Lod(JNum(0), JStr(<<"d", "/", "m">>), JAbsent)>>,
          JList(<<Str1("t"), JStr(<<"d", "/", "t">>)>>)),
    \* two levels, not sorted; two materials, two thumbnails, two extra files
    [Def(Str1("h"), Wing,
         JList(<<Lod(JNum(1), Str1("m"), JNum(0)), Lod(JBool(FALSE), Str1("c"), Str1("t"))>>),
         JList(<<Str1("t"), Str1("u")>>), JList(<<Str1("u"), Str1("c")>>),
         Str1("m"), JList(<<Str1("c"), Str1("m")>>), NoMeta)
       EXCEPT !.displayName = JStr(<<"H">>)],
    \* materials given as a string, not a list
    HullH(<<Lod0>>, JStr(<<"t", "u">>)),
    \* an id that is itself a path
    Def(JStr(<<".", ".">>), Hull, JList(<<Lod0>>), JAbsent, JAbsent, JAbsent,
        JAbsent, NoMeta) }

InvalidDefs ==
  { [MeshOnly(Str1("m")) EXCEPT !.isobj = FALSE],
    [MeshOnly(Str1("m")) EXCEPT !.id = JNum(1)],
    [MeshOnly(Str1("m")) EXCEPT !.lods = JList(<<>>)],
    HullH(<<Lod0, NotAnObjectLod>>, JAbsent),
    [MeshOnly(Str1("m")) EXCEPT !.type = JStr(<<"turret">>)],
    [MeshOnly(Str1("m")) EXCEPT !.type = JList(<<>>)],
    \* a level used twice in one module
    HullH(<<Lod0, Lod(JNum(0), Str1("c"), JAbsent)>>, JAbsent),
    HullH(<<Lod(JNum(-1), Str1("m"), JAbsent)>>, JAbsent),
    \* a collision value that is true but no string
    HullH(<<Lod(JNum(0), Str1("m"), JNum(1))>>, JAbsent),
    \* a file that does not exist under the root
    MeshOnly(Str1("n")),
    \* outside the root: an existing file, a missing file, through a link
    MeshOnly(JStr(<<".", ".", "/", "s">>)),
    MeshOnly(JStr(<<".", ".", "/", "n">>)),
    MeshOnly(JStr(<<"/", "s">>)),
    MeshOnly(Str1("l")),
    \* list fields that are present but no list
    HullH(<<Lod0>>, JNull),
    [MeshOnly(Str1("m")) EXCEPT !.extraFiles = JNum(3)] }

ModuleDefs == ValidDefs \cup InvalidDefs

\* The manifests read_manifest lets through: version 1 and a non-empty list
\* of modules.
Manifests == UNION {[1..k -> ModuleDefs] : k \in 1..MaxModules}

\* ------------------------------------------------------------- BundleAssembler
DigitSym == <<"0", "1", "2", "3", "4", "5", "6", "7", "8", "9">>

RECURSIVE Digits(_)
Digits(n) ==
  IF n < 10 THEN <<DigitSym[n + 1]>>
  ELSE Digits(n \div 10) \o <<DigitSym[(n % 10) + 1]>>

\* str(level) inside f"lod_{lod.level}"
LevelStr(level) ==
  IF level.t = "bool" THEN (IF level.n = 1 THEN <<"True">> ELSE <<"False">>)
  ELSE Digits(level.n)

Seg(path, segment) == JoinPath(path, MkPath(FALSE, <<segment>>))

\* One copy of copy_into_bundle: the source file, the place on disk the copy
\* lands on, and the destination as the code spells it (for mkdir).
CopyOp(src, bundle_root, rel_target) ==
  [src |-> src, dest |-> Resolve(JoinPath(bundle_root, rel_target)),
   lexical |-> JoinPath(bundle_root, rel_target).segs]

\* A faulty variant of copy_into_bundle: the copy is made in a dry run too.
CopyAlsoInDryRun(files, bundle_root, target_subdir, dry_run) ==
  [copied |-> [i \in 1..Len(files) |->
                 AsPosix(Seg(target_subdir, Name(files[i])))],
   ops |-> [i \in 1..Len(files) |->
                 CopyOp(files[i], bundle_root, Seg(target_subdir, Name(files[i])))]]

\* A faulty variant of copy_into_bundle: a dry run reports the source path.
CopyReportsSourceInDryRun(files, bundle_root, target_subdir, dry_run) ==
  [copied |-> [i \in 1..Len(files) |->
                 IF dry_run THEN AsPosix(MkPath(TRUE, files[i]))
                 ELSE AsPosix(Seg(target_subdir, Name(files[i])))],
   ops |-> IF dry_run THEN <<>>
           ELSE [i \in 1..Len(files) |->
                   CopyOp(files[i], bundle_root, Seg(target_subdir, Name(files[i])))]]

\* copy_into_bundle: the destination strings reported, and the copies made
\* (none in a dry run), both in the order of files.
copy_into_bundle(files, bundle_root, target_subdir, dry_run) ==
  [copied |-> [i \in 1..Len(files) |->
                 AsPosix(Seg(target_subdir, Name(files[i])))],
   ops |-> IF dry_run THEN <<>>
           ELSE [i \in 1..Len(files) |->
                   CopyOp(files[i], bundle_root, Seg(target_subdir, Name(files[i])))]]

\* Path("modules") / module.module_type / module.module_id
ModuleTarget(module) ==
  JoinPath(JoinPath(ParsePath(<<"modules">>), ParsePath(module.module_type)),
           ParsePath(module.module_id))

\* Lines 193-203: the copy and the output entry of one LOD.
LodCopy(module, lod, output_dir, dry_run) ==
  copy_into_bundle(IF lod.has_collision THEN <<lod.mesh, lod.collision>>
                   ELSE <<lod.mesh>>,
                   output_dir,
                   Seg(ModuleTarget(module), <<"lod_">> \o LevelStr(lod.level)),
                   dry_run)

LodOutput(lod, copied) ==
  [level |-> lod.level, mesh |-> copied[1], has_collision |-> lod.has_collision,
   collision |-> IF lod.has_collision THEN copied[2] ELSE <<>>]

RECURSIVE Flatten(_)
Flatten(seqs) == IF seqs = <<>> THEN <<>> ELSE Head(seqs) \o Flatten(Tail(seqs))

\* A faulty variant of BundleLods: the LODs are visited last to first.
BundleLodsReversed(module, output_dir, dry_run) ==
  [outputs |-> [i \in 1..Len(module.lods) |->
                  LodOutput(module.lods[Len(module.lods) + 1 - i],
                            LodCopy(module, module.lods[Len(module.lods) + 1 - i],
                                    output_dir, dry_run).copied)],
   ops |-> Flatten([i \in 1..Len(module.lods) |->
                      LodCopy(module, module.lods[Len(module.lods) + 1 - i],
                              output_dir, dry_run).ops])]

\* Lines 191-203: the loop over module.lods.
BundleLods(module, output_dir, dry_run) ==
  [outputs |-> [i \in 1..Len(module.lods) |->
                  LodOutput(module.lods[i],
                            LodCopy(module, module.lods[i], output_dir, dry_run).copied)],
   ops |-> Flatten([i \in 1..Len(module.lods) |->
                      LodCopy(module, module.lods[i], output_dir, dry_run).ops])]

\* Lines 226-254: the record of the module in the compiled manifest.  keys
\* holds the optional list keys the record carries (only non-empty lists are
\* kept); meta the pass-through keys present on the definition.
Sanitized(module, L, M, T, E) ==
  [id |-> module.module_id, type |-> module.module_type,
   displayName |-> module.display_name, lods |-> L.outputs,
   meta |-> [k \in DOMAIN module.source.meta \cap OPTIONAL_KEYS |->
               module.source.meta[k]],
   keys |-> {k \in {"materials"} : M.copied # <<>>}
            \cup {k \in {"thumbnails"} : T.copied # <<>>}
            \cup {k \in {"extraFiles"} : E.copied # <<>>},
   materials |-> M.copied, thumbnails |-> T.copied, extraFiles |-> E.copied]

Bundled(module, L, M, T, E) ==
  [sanitized |-> Sanitized(module, L, M, T, E),
   ops |-> L.ops \o M.ops \o T.ops \o E.ops]

\* Lines 190-254: the bundle of one validated module: its record in the
\* compiled manifest and the copies made for it, in order.
BundleModule(module, output_dir, dry_run) ==
  Bundled(module,
          BundleLods(module, output_dir, dry_run),
          copy_into_bundle(module.materials, output_dir,
                           Seg(ModuleTarget(module), <<"materials">>), dry_run),
          copy_into_bundle(module.thumbnails, output_dir,
                           Seg(ModuleTarget(module), <<"thumbnails">>), dry_run),
          copy_into_bundle(module.extra_files, output_dir,
                           Seg(ModuleTarget(module), <<"extras">>), dry_run))

\* dest.parent.mkdir(parents=True, exist_ok=True): every directory on the way
\* to the path exists afterwards.
MkdirParents(ds, lexical) ==
  ds \cup {Walk(<<>>, SubSeq(lexical, 1, k)) : k \in 1..Len(lexical)}

\* shutil.copy2(src, dest): dest holds the content of src afterwards.  A file
\* of the asset tree is told from the others by where it is.
CopyFile(fs, op) ==
  [p \in DOMAIN fs \cup {op.dest} |-> IF p = op.dest THEN op.src ELSE fs[p]]

RECURSIVE ApplyFiles(_, _)
ApplyFiles(fs, ops) ==
  IF ops = <<>> THEN fs ELSE ApplyFiles(CopyFile(fs, Head(ops)), Tail(ops))

RECURSIVE ApplyDirs(_, _)
ApplyDirs(ds, ops) ==
  IF ops = <<>> THEN ds
  ELSE ApplyDirs(MkdirParents(ds, SubSeq(Head(ops).lexical, 1,
                                         Len(Head(ops).lexical) - 1)),
                 Tail(ops))

Compiled(mods) == [version |-> 1, generated |-> TRUE, modules |-> mods]

\* What an invocation ended with: a returned document, the combined
\* ValidationError (count and messages), or another exception.
Result(kind, doc, count, messages) ==
  [kind |-> kind, doc |-> doc, count |-> count, messages |-> messages]

NoResult == Result("none", Compiled(<<>>), 0, <<>>)

\* ------------------------------------------------------------- state
VARIABLES
  manifest,       \* manifest["modules"], as read_manifest returned it
  dry_run,        \* the flag of the current invocation
  run,            \* the number of the current invocation
  pc,             \* "loop", "returned", "raised" or "crashed"
  idx,            \* the module the loop of build_bundle is at
  modules_out,    \* build_bundle's modules_out
  errors,         \* build_bundle's errors
  attempted,      \* the outcome of parse_module for each module visited
  writes,         \* the copies this invocation has made, in order
  out,            \* the files on disk written by builds, with their content
  dirs,           \* the directories builds have created
  compiled_file,  \* ship_art_manifest.compiled.json: <<>> or <<document>>
  result,         \* what the current invocation ended with
  pre,            \* out, dirs and compiled_file when the invocation began
  prev            \* the previous invocation: its flag and its result

vars == <<manifest, dry_run, run, pc, idx, modules_out, errors, attempted,
          writes, out, dirs, compiled_file, result, pre, prev>>

Snapshot(o, d, c) == [out |-> o, dirs |-> d, compiled_file |-> c]

NoFiles == [p \in {} |-> <<>>]

Init ==
  /\ manifest \in Manifests
  /\ dry_run \in BOOLEAN
  /\ run = 1
  /\ pc = "loop"
  /\ idx = 1
  /\ modules_out = <<>>
  /\ errors = <<>>
  /\ attempted = <<>>
  /\ writes = <<>>
  /\ out = NoFiles
  /\ dirs = {}
  /\ compiled_file = <<>>
  /\ result = NoResult
  /\ pre = Snapshot(NoFiles, {}, <<>>)
  /\ prev = [dry_run |-> FALSE, result |-> NoResult]

Attempt(r) == [kind |-> r.kind, err |-> r.err, probes |-> r.probes]

\* Lines 183-188: parse_module raises ValidationError; the message is kept
\* and the loop goes on.
ModuleRejected ==
  /\ pc = "loop" /\ idx <= Len(manifest)
  /\ \E r \in {parse_module(manifest[idx], AssetsDir)} :
       /\ r.kind = "ValidationError"
       /\ errors' = Append(errors, r.err)
       /\ attempted' = Append(attempted, Attempt(r))
  /\ idx' = idx + 1
  /\ UNCHANGED <<manifest, dry_run, run, pc, modules_out, writes, out, dirs,
                 compiled_file, result, pre, prev>>

\* Lines 183-188: parse_module raises an exception the except clause does not
\* name; it leaves build_bundle.
ModuleRaises ==
  /\ pc = "loop" /\ idx <= Len(manifest)
  /\ \E r \in {parse_module(manifest[idx], AssetsDir)} :
       /\ r.kind = "TypeError"
       /\ attempted' = Append(attempted, Attempt(r))
  /\ pc' = "crashed"
  /\ result' = Result("TypeError", Compiled(<<>>), 0, <<>>)
  /\ UNCHANGED <<manifest, dry_run, run, idx, modules_out, errors, writes, out,
                 dirs, compiled_file, pre, prev>>

\* Lines 183-254: the module validates; its files are copied (unless dry_run)
\* and its record is appended.
ModuleBundled ==
  /\ pc = "loop" /\ idx <= Len(manifest)
  /\ \E r \in {parse_module(manifest[idx], AssetsDir)} :
       /\ r.kind = "ok"
       /\ attempted' = Append(attempted, Attempt(r))
       /\ \E b \in {BundleModule(r.module, OutputDir, dry_run)} :
            /\ modules_out' = Append(modules_out, b.sanitized)
            /\ writes' = writes \o b.ops
            /\ out' = ApplyFiles(out, b.ops)
            /\ dirs' = ApplyDirs(dirs, b.ops)
  /\ idx' = idx + 1
  /\ UNCHANGED <<manifest, dry_run, run, pc, errors, compiled_file, result,
                 pre, prev>>

\* Lines 256-258: after the loop, the combined ValidationError.
RaiseCombined ==
  /\ pc = "loop" /\ idx > Len(manifest)
  /\ errors # <<>>
  /\ pc' = "raised"
  /\ result' = Result("ValidationError", Compiled(<<>>), Len(errors), errors)
  /\ UNCHANGED <<manifest, dry_run, run, idx, modules_out, errors, attempted,
                 writes, out, dirs, compiled_file, pre, prev>>

\* Lines 260-273: the compiled manifest is built, written unless dry_run, and
\* returned.
ReturnCompiled ==
  /\ pc = "loop" /\ idx > Len(manifest)
  /\ errors = <<>>
  /\ pc' = "returned"
  /\ result' = Result("returned", Compiled(modules_out), 0, <<>>)
  /\ IF dry_run
     THEN UNCHANGED <<dirs, compiled_file>>
     ELSE /\ dirs' = MkdirParents(dirs, OutputDir.segs)
          /\ compiled_file' = <<Compiled(modules_out)>>
  /\ UNCHANGED <<manifest, dry_run, run, idx, modules_out, errors, attempted,
                 writes, out, pre, prev>>

\* main is run again on the same manifest and asset tree, with either flag.
Rebuild ==
  /\ pc \in {"returned", "raised", "crashed"}
  /\ run < MaxRuns
  /\ run' = run + 1
  /\ dry_run' \in BOOLEAN
  /\ prev' = [dry_run |-> dry_run, result |-> result]
  /\ pre' = Snapshot(out, dirs, compiled_file)
  /\ pc' = "loop"
  /\ idx' = 1
  /\ modules_out' = <<>>
  /\ errors' = <<>>
  /\ attempted' = <<>>
  /\ writes' = <<>>
  /\ result' = NoResult
  /\ UNCHANGED <<manifest, out, dirs, compiled_file>>

Next ==
  \/ ModuleRejected
  \/ ModuleRaises
  \/ ModuleBundled
  \/ RaiseCombined
  \/ ReturnCompiled
  \/ Rebuild

Spec == Init /\ [][Next]_vars

\* ------------------------------------------------------------- properties
Ended == pc \in {"returned", "raised", "crashed"}

\* The location a declared path string resolves to under the asset root.
Declared(raw) == Resolve(JoinPath(AssetsDir, ParsePath(raw.s)))

\* The place on disk a path string of the compiled manifest names.
InBundle(str) == Resolve(JoinPath(OutputDir, ParsePath(str)))

Validates(defn) == parse_module(defn, AssetsDir).kind = "ok"

AllValidate == \A i \in 1..Len(manifest) : Validates(manifest[i])

RECURSIVE FailureMessages(_)
\* The messages of the modules of a manifest that do not validate, in order.
FailureMessages(defs) ==
  IF defs = <<>> THEN <<>>
  ELSE (IF Validates(Head(defs)) THEN <<>>
        ELSE <<parse_module(Head(defs), AssetsDir).err>>)
       \o FailureMessages(Tail(defs))

\* The files a validated module references.
ReferencedFiles(module) ==
  {module.lods[j].mesh : j \in 1..Len(module.lods)}
  \cup {module.lods[j].collision :
          j \in {k \in 1..Len(module.lods) : module.lods[k].has_collision}}
  \cup {module.materials[j] : j \in 1..Len(module.materials)}
  \cup {module.thumbnails[j] : j \in 1..Len(module.thumbnails)}
  \cup {module.extra_files[j] : j \in 1..Len(module.extra_files)}

\* C1: an invocation in which a module fails validation ends with a
\* ValidationError and the compiled manifest file is not written; a real
\* (non-dry-run) invocation in which every module validates ends with the
\* compiled manifest written and a copy made for every file the validated
\* modules reference; an invocation ends in no other way.
C1_FailsOrSucceedsWhole ==
  Ended =>
    /\ pc # "crashed"
    /\ ~AllValidate =>
         /\ result.kind = "ValidationError"
         /\ compiled_file = pre.compiled_file
    /\ (AllValidate /\ ~dry_run) =>
         /\ result.kind = "returned"
         /\ compiled_file = <<result.doc>>
         /\ \A i \in 1..Len(manifest) :
              \A f \in ReferencedFiles(parse_module(manifest[i], AssetsDir).module) :
                \E w \in 1..Len(writes) : writes[w].src = f

\* C2: nothing is written to the output tree (no directory made, no file
\* copied) before every module of the manifest has validated, so a build that
\* fails leaves the output tree as it was.
C2_NoWriteBeforeAllValidated ==
  /\ (writes # <<>> \/ out # pre.out \/ dirs # pre.dirs) =>
       /\ Len(attempted) = Len(manifest)
       /\ \A i \in 1..Len(attempted) : attempted[i].kind = "ok"
  /\ pc = "raised" => (out = pre.out /\ dirs = pre.dirs)

\* C3: a declared path (a non-empty string) whose resolved location is not
\* under the resolved asset root is answered with the path-escape failure,
\* whether or not the location exists.
C3_EscapeAlwaysReported ==
  \A i \in 1..Len(attempted) : \A q \in 1..Len(attempted[i].probes) :
    LET b == attempted[i].probes[q] IN
      (IsNonEmptyStr(b.raw) /\ ~IsRelativeTo(Declared(b.raw), Resolve(AssetsDir)))
        => b.outcome = "escape"

\* C4: every module of the manifest is attempted whatever happened to the
\* earlier ones, and when a module failed the invocation ends with the one
\* combined failure, whose count is the number of failed modules and whose
\* messages are those of the failed modules, once each, in manifest order.
C4_AllAttemptedOneCombinedFailure ==
  Ended =>
    /\ Len(attempted) = Len(manifest)
    /\ ~AllValidate =>
         /\ result.kind = "ValidationError"
         /\ result.count = Cardinality({i \in 1..Len(manifest) : ~Validates(manifest[i])})
         /\ result.messages = FailureMessages(manifest)

\* C5: an invocation with dry_run set makes no directory, copies no file and
\* writes no compiled manifest, whether it succeeds or fails.
C5_DryRunWritesNothing ==
  dry_run =>
    /\ writes = <<>>
    /\ out = pre.out
    /\ dirs = pre.dirs
    /\ compiled_file = pre.compiled_file

\* C5 witness: a dry run over a manifest with files to copy has returned, in
\* an output tree an earlier real build has filled.
C5_Witness ==
  /\ dry_run /\ pc = "returned" /\ modules_out # <<>>
  /\ ~prev.dry_run /\ prev.result.kind = "returned"
  /\ DOMAIN pre.out # {}

RepeatsLevel(lod_raw, k) ==
  \E j \in 1..(k - 1) :
    lod_raw[j].isobj /\ lod_raw[k].isobj /\ lod_raw[j].level = lod_raw[k].level

HasRepeatedLevel(defn) ==
  /\ defn.isobj /\ defn.lods.t = "list"
  /\ \E k \in 1..Len(defn.lods.l) : RepeatsLevel(defn.lods.l, k)

\* C7: a module with two LOD entries of the same level is rejected, and no
\* path of the repeating entry or of a later one is resolved; the levels seen
\* are kept per module, so the reuse failure is only ever raised for a module
\* that repeats a level itself.
C7_LevelUniquePerModule ==
  \A i \in 1..Len(attempted) :
    /\ HasRepeatedLevel(manifest[i]) =>
         /\ attempted[i].kind # "ok"
         /\ \A q \in 1..Len(attempted[i].probes) :
              \A k \in 1..Len(manifest[i].lods.l) :
                RepeatsLevel(manifest[i].lods.l, k) => attempted[i].probes[q].lod < k
    /\ attempted[i].err.kind = "reuse_level" => HasRepeatedLevel(manifest[i])

\* C7 witness: a module repeating level 0 was rejected after a module using
\* level 0 once was accepted.
C7_Witness ==
  /\ Len(attempted) = 2
  /\ attempted[1].kind = "ok" /\ ~HasRepeatedLevel(manifest[1])
  /\ manifest[1].lods.l[1].level = JNum(0)
  /\ HasRepeatedLevel(manifest[2]) /\ attempted[2].err.kind = "reuse_level"
  /\ manifest[2].lods.l[1].level = JNum(0)

\* C8: validating a module definition of any shape ends with a validated
\* record or with a ValidationError, nothing else, and a materials or
\* extraFiles value that is present but no list never gives a record.
C8_OnlyRecordOrValidationError ==
  \A i \in 1..Len(attempted) :
    /\ attempted[i].kind \in {"ok", "ValidationError"}
    /\ (manifest[i].materials.t \notin {"absent", "list"}
        \/ manifest[i].extraFiles.t \notin {"absent", "list"})
         => attempted[i].kind # "ok"

\* The destination string of a declared path, under directory sub of the
\* module's subtree.
ExpectedDest(defn, sub, raw) ==
  AsPosix(MkPath(FALSE, <<<<"modules">>, defn.type.s>> \o ParsePath(defn.id.s).segs
                        \o <<sub, Name(Declared(raw))>>))

ExpectedDests(defn, sub, raws) ==
  [j \in 1..Len(raws) |-> ExpectedDest(defn, sub, raws[j])]

\* C9: in the compiled manifest of a successful build the modules are those
\* of the input manifest in the same order, and in each module the lods,
\* materials, thumbnails and extraFiles are the input lists mapped entry by
\* entry, in the same order.
C9_OrderPreserved ==
  pc = "returned" =>
    /\ Len(result.doc.modules) = Len(manifest)
    /\ \A i \in 1..Len(manifest) :
         LET d == manifest[i]
             m == result.doc.modules[i]
         IN /\ m.id = d.id.s /\ m.type = d.type.s
            /\ Len(m.lods) = Len(d.lods.l)
            /\ \A j \in 1..Len(d.lods.l) :
                 /\ m.lods[j].level = d.lods.l[j].level
                 /\ m.lods[j].mesh =
                      ExpectedDest(d, <<"lod_">> \o LevelStr(d.lods.l[j].level),
                                   d.lods.l[j].mesh)
                 /\ m.lods[j].has_collision = Truthy(d.lods.l[j].collision)
                 /\ m.lods[j].has_collision =>
                      m.lods[j].collision =
                        ExpectedDest(d, <<"lod_">> \o LevelStr(d.lods.l[j].level),
                                     d.lods.l[j].collision)
            /\ d.materials.t = "list" =>
                 m.materials = ExpectedDests(d, <<"materials">>, d.materials.l)
            /\ d.thumbnails.t = "list" =>
                 m.thumbnails = ExpectedDests(d, <<"thumbnails">>, d.thumbnails.l)
            /\ d.extraFiles.t = "list" =>
                 m.extraFiles = ExpectedDests(d, <<"extras">>, d.extraFiles.l)

\* C9 witness: a build of two modules has returned; the second has two LODs
\* and two materials, thumbnails and extra files.
C9_Witness ==
  /\ pc = "returned" /\ Len(manifest) = 2
  /\ manifest[1].id # manifest[2].id
  /\ Len(result.doc.modules[2].lods) = 2
  /\ Len(result.doc.modules[2].materials) = 2
  /\ Len(result.doc.modules[2].thumbnails) = 2
  /\ Len(result.doc.modules[2].extraFiles) = 2

\* The path strings of a module record of the compiled manifest, each with
\* the declared path it stands for.
RecordPaths(defn, m) ==
  {<<m.lods[j].mesh, defn.lods.l[j].mesh>> : j \in 1..Len(m.lods)}
  \cup {<<m.lods[j].collision, defn.lods.l[j].collision>> :
          j \in {k \in 1..Len(m.lods) : m.lods[k].has_collision}}
  \cup {<<m.materials[j], Items(defn.materials)[j]>> : j \in 1..Len(m.materials)}
  \cup {<<m.thumbnails[j], ThumbItems(defn)[j]>> : j \in 1..Len(m.thumbnails)}
  \cup {<<m.extraFiles[j], Items(defn.extraFiles)[j]>> : j \in 1..Len(m.extraFiles)}

\* C10: after a successful real build every path string of the compiled
\* manifest names a file of the output tree, under modules/<type>/<id>/, that
\* holds the content of the file its entry was declared with, and no two
\* different source files were copied to the same place.
C10_EveryPathNamesItsSource ==
  (pc = "returned" /\ ~dry_run) =>
    /\ \A i \in 1..Len(manifest) :
         \A e \in RecordPaths(manifest[i], result.doc.modules[i]) :
           /\ InBundle(e[1]) \in DOMAIN out
           /\ out[InBundle(e[1])] = Declared(e[2])
           /\ IsPrefix(OutputDir.segs \o <<<<"modules">>, manifest[i].type.s>>
                         \o ParsePath(manifest[i].id.s).segs,
                       InBundle(e[1]))
    /\ \A a, b \in 1..Len(writes) :
         writes[a].dest = writes[b].dest => writes[a].src = writes[b].src

====
